---------------------------- MODULE Spec2Model ----------------------------
(* Model of rig-core/src/providers/yandex/client.rs: the credential store  *)
(* (Client), its token refresher (upd_token), the request builder          *)
(* (post/get) and the submit -> poll -> classify flow of                   *)
(* CompletionModel::completion.                                            *)
(*                                                                         *)
(* Conventions.                                                            *)
(*  - Option<T> is a sequence of length 0 (None) or 1 (Some(x)).           *)
(*  - A string is a sequence of characters.  In URLs a character is either *)
(*    the separator "/" or a chunk that holds no separator; in tokens a    *)
(*    character is one of TokenAlphabet, "\n" being the line terminator.   *)
(*  - Time is the local wall clock of Local::now(), counted in hours.      *)
(*  - A compiled Regex is the literal it searches for; is_match is an      *)
(*    unanchored search, as in the regex crate.                            *)
(*  - A panic (expect/unwrap on an Err/None, panic!) is the outcome kind   *)
(*    "panic": the calling task unwinds.                                   *)
(*  - http_client, langs and the model name carry no behaviour of the      *)
(*    flow and are left out of the store.                                  *)
(*  - completion reaches the store through a *mut Client cast from &self.  *)
(*    Every read and write of token and token_upd is made inside post/get  *)
(*    through that pointer, so within one flow the values upd_token wrote  *)
(*    are the values the next turn reads.  One flow runs at a time under   *)
(*    Spec; SpecConc has several flows inside upd_token on one store.      *)
(*  - completion is cut at its await points: a step runs from one await    *)
(*    to the next, and the clock may advance between steps.  SpecLive is   *)
(*    Spec with every awaited answer arriving and every sleep ending.      *)
(*  - A request is the record of what post/get set on it: the method, the  *)
(*    URL, x-folder-id, x-data-logging-enabled and the one Authorization   *)
(*    header (its scheme and its credential).                              *)
EXTENDS Integers, Sequences, FiniteSets, TLC

\* ------------------------------------------------------------------ bounds
\* Last hour of the modelled clock.
MaxTime == 3
\* Longest standard output of the token issuer, in characters.
MaxOut == 2
\* Longest base URL and longest path of the URL-building specification.
MaxUrlLen == 3

\* ------------------------------------------------------- program constants
\* const YA_OCR_TOKEN_UPD: TimeDelta = TimeDelta::try_hours(3)
YA_OCR_TOKEN_UPD == 3
\* for i in 0..30
MaxAttempts == 30

\* ------------------------------------------------------------------ Option
None == << >>
Some(x) == << x >>
IsSome(o) == o # << >>
Unwrap(o) == o[1]

\* ----------------------------------------------------------------- strings
RECURSIVE SeqsUpTo(_, _)
\* All strings over alphabet A of length at most n.
SeqsUpTo(A, n) ==
    IF n = 0 THEN { << >> }
    ELSE LET S == SeqsUpTo(A, n - 1)
         IN  S \cup { Append(s, a) : s \in { x \in S : Len(x) = n - 1 }, a \in A }

\* String::pop: removes the last character, whatever it is; no-op on "".
Pop(s) == IF s = << >> THEN s ELSE SubSeq(s, 1, Len(s) - 1)

\* Regex::is_match for a literal: unanchored search.
IsMatch(lit, s) ==
    \E k \in 0 .. (Len(s) - Len(lit)) : SubSeq(s, k + 1, k + Len(lit)) = lit

RECURSIVE Replace2(_)
\* str::replace("//", "/"): one left-to-right pass over non-overlapping matches.
Replace2(s) ==
    IF Len(s) < 2 THEN s
    ELSE IF s[1] = "/" /\ s[2] = "/"
         THEN << "/" >> \o Replace2(SubSeq(s, 3, Len(s)))
         ELSE << s[1] >> \o Replace2(SubSeq(s, 2, Len(s)))

\* format!("{}/{}", self.base_url, path).replace("//", "/")
BuildUrl(base_url, path) == Replace2(base_url \o << "/" >> \o path)

\* ------------------------------------------------------------- input sets
TokenAlphabet == { "t", "\n" }
\* The literal standing for YA_TOKEN_PATTERN, and a caller-configured one.
YA_TOKEN_PATTERN == [valid |-> TRUE, lit |-> << "t" >>]
CustomPattern == [valid |-> TRUE, lit |-> << "\n" >>]
\* A pattern Regex::new rejects.
BrokenPattern == [valid |-> FALSE, lit |-> << >>]
PatternArgs == { None, Some(CustomPattern), Some(BrokenPattern) }

\* What Command::output and String::from_utf8 can give.
NoIssuer == [kind |-> "spawn_err", out |-> << >>]
IssuerResults ==
    { NoIssuer, [kind |-> "bad_utf8", out |-> << >>] }
    \cup { [kind |-> "stdout", out |-> s] : s \in SeqsUpTo(TokenAlphabet, MaxOut) }

ApiKeyArgs == { None, Some(<< "k" >>) }
FolderArgs == { None, Some(<< "f" >>) }
\* The caller's token is stored as given: "x" is a string no pattern matches.
TokenArgs == { None, Some(<< "t" >>), Some(<< "x" >>) }

YA_BASE_URL == << "https:", "/", "/", "host", "/", "ocr", "/", "v1" >>
OtherBaseUrl == << "http:", "/", "/", "mock", "/" >>
BaseUrlArgs == { None, Some(OtherBaseUrl) }


\* ---------------------------------------------------------- the store
\* What the record of an upd_token call looks like when none was made.
NoUpd ==
    [called |-> FALSE, at |-> 0, invoked |-> FALSE, res |-> "Ok", why |-> "",
     raw |-> << >>, tkn |-> << >>, pre_token |-> None, pre_upd |-> None]

\* struct Client, before from_full has filled it.
NoClient ==
    [base_url |-> << >>, api_key |-> None, token |-> None, folder |-> None,
     token_upd |-> None, rx |-> YA_TOKEN_PATTERN, auth_t |-> "None"]

\* ResolveAuth with the two tests in the other order.
ResolveAuth_FolderFirst(a_api_key, a_folder) ==
    IF IsSome(a_folder) THEN "Token"
    ELSE IF IsSome(a_api_key) THEN "ApiKey"
    ELSE "None"

\* The deduction of the auth type at the head of from_full.
ResolveAuth(a_api_key, a_folder) ==
    IF IsSome(a_api_key) THEN "ApiKey"
    ELSE IF IsSome(a_folder) THEN "Token"
    ELSE "None"

\* TokenFresh with `<=` for `<`.
TokenFresh_Inclusive(c, now) ==
    /\ IsSome(c.token_upd)
    /\ IsSome(c.token)
    /\ now - Unwrap(c.token_upd) <= YA_OCR_TOKEN_UPD

\* upd_token's early return: a token is held and now - token_upd < three hours.
TokenFresh(c, now) ==
    /\ IsSome(c.token_upd)
    /\ IsSome(c.token)
    /\ now - Unwrap(c.token_upd) < YA_OCR_TOKEN_UPD

\* StoreToken without the write of token_upd.
StoreToken_TokenOnly(c, now, iss) ==
    IF iss.kind = "stdout" /\ IsMatch(c.rx.lit, Pop(iss.out))
    THEN [c EXCEPT !.token = Some(Pop(iss.out))]
    ELSE c

\* StoreToken with the refresh time written before the is_match test: a
\* rejected output leaves the old token under a new refresh time.
StoreToken_StampFirst(c, now, iss) ==
    IF iss.kind = "stdout"
    THEN IF IsMatch(c.rx.lit, Pop(iss.out))
         THEN [c EXCEPT !.token = Some(Pop(iss.out)), !.token_upd = Some(now)]
         ELSE [c EXCEPT !.token_upd = Some(now)]
    ELSE c

\* StoreToken with the assignments moved above the is_match test.
StoreToken_Unchecked(c, now, iss) ==
    IF iss.kind = "stdout"
    THEN [c EXCEPT !.token = Some(Pop(iss.out)), !.token_upd = Some(now)]
    ELSE c

\* The store after upd_token has taken the issuer's result: the token and
\* the refresh time are written only when the popped output matches rx.
StoreToken(c, now, iss) ==
    IF iss.kind = "stdout" /\ IsMatch(c.rx.lit, Pop(iss.out))
    THEN [c EXCEPT !.token = Some(Pop(iss.out)), !.token_upd = Some(now)]
    ELSE c

\* fn upd_token(&mut self) -> Result<(), YaErr>, called at local time now,
\* the issuer answering iss if it is invoked.  Gives the store afterwards
\* and the record of the call.
upd_token(c, now, iss) ==
    LET pre == [NoUpd EXCEPT !.called = TRUE, !.at = now,
                             !.pre_token = c.token, !.pre_upd = c.token_upd]
    IN  IF TokenFresh(c, now)
        THEN [client |-> c, call |-> pre]
        ELSE LET inv == [pre EXCEPT !.invoked = TRUE]
             IN  CASE iss.kind = "spawn_err" ->
                        [client |-> c,
                         call |-> [inv EXCEPT !.res = "TokenUpdErr", !.why = "bash"]]
                   [] iss.kind = "bad_utf8" ->
                        [client |-> c,
                         call |-> [inv EXCEPT !.res = "TokenUpdErr", !.why = "stdout"]]
                   [] OTHER ->
                        [client |-> StoreToken(c, now, iss),
                         call |-> [inv EXCEPT
                                     !.raw = iss.out,
                                     !.tkn = Pop(iss.out),
                                     !.res = IF IsMatch(c.rx.lit, Pop(iss.out))
                                             THEN "Ok" ELSE "TokenUpdErr",
                                     !.why = IF IsMatch(c.rx.lit, Pop(iss.out))
                                             THEN "" ELSE "invalid"]]

\* from_full without the upd_token call of the Token arm: the store is
\* handed out as filled from the arguments.
from_full_LazyRefresh(a_base_url, a_api_key, a_token, a_folder, a_tkn_pattern, now, iss) ==
    LET auth_t == ResolveAuth(a_api_key, a_folder)
        pat == IF IsSome(a_tkn_pattern) THEN Unwrap(a_tkn_pattern)
               ELSE YA_TOKEN_PATTERN
        out == [base_url |-> IF IsSome(a_base_url) THEN Unwrap(a_base_url)
                             ELSE YA_BASE_URL,
                api_key |-> a_api_key,
                token |-> a_token,
                folder |-> a_folder,
                token_upd |-> IF IsSome(a_token) THEN Some(now) ELSE None,
                rx |-> pat,
                auth_t |-> auth_t]
    IN  IF auth_t = "None"
        THEN [res |-> "BuildErr", auth_t |-> auth_t, client |-> NoClient, call |-> NoUpd]
        ELSE IF ~pat.valid
        THEN [res |-> "panic", auth_t |-> auth_t, client |-> NoClient, call |-> NoUpd]
        ELSE [res |-> "Ok", auth_t |-> auth_t, client |-> out, call |-> NoUpd]

\* from_full without the BuildErr return: the store is made whatever the
\* deduced auth type.
from_full_NoBuildErr(a_base_url, a_api_key, a_token, a_folder, a_tkn_pattern, now, iss) ==
    LET auth_t == ResolveAuth(a_api_key, a_folder)
        pat == IF IsSome(a_tkn_pattern) THEN Unwrap(a_tkn_pattern)
               ELSE YA_TOKEN_PATTERN
        out == [base_url |-> IF IsSome(a_base_url) THEN Unwrap(a_base_url)
                             ELSE YA_BASE_URL,
                api_key |-> a_api_key,
                token |-> a_token,
                folder |-> a_folder,
                token_upd |-> IF IsSome(a_token) THEN Some(now) ELSE None,
                rx |-> pat,
                auth_t |-> auth_t]
        r == upd_token(out, now, iss)
    IN  IF ~pat.valid
        THEN [res |-> "panic", auth_t |-> auth_t, client |-> NoClient, call |-> NoUpd]
        ELSE IF auth_t = "Token"
        THEN IF r.call.res = "Ok"
             THEN [res |-> "Ok", auth_t |-> auth_t, client |-> r.client, call |-> r.call]
             ELSE [res |-> "TokenUpdErr", auth_t |-> auth_t, client |-> NoClient,
                   call |-> r.call]
        ELSE [res |-> "Ok", auth_t |-> auth_t, client |-> out, call |-> NoUpd]

\* pub fn from_full(...) -> Result<Self, YaErr>.  res is "Ok" (client is the
\* new store), "BuildErr", "TokenUpdErr" or "panic" (Regex::new(..).unwrap()
\* on a pattern that does not compile); auth_t is the deduced auth type.
from_full(a_base_url, a_api_key, a_token, a_folder, a_tkn_pattern, now, iss) ==
    LET auth_t == ResolveAuth(a_api_key, a_folder)
        pat == IF IsSome(a_tkn_pattern) THEN Unwrap(a_tkn_pattern)
               ELSE YA_TOKEN_PATTERN
        out == [base_url |-> IF IsSome(a_base_url) THEN Unwrap(a_base_url)
                             ELSE YA_BASE_URL,
                api_key |-> a_api_key,
                token |-> a_token,
                folder |-> a_folder,
                token_upd |-> IF IsSome(a_token) THEN Some(now) ELSE None,
                rx |-> pat,
                auth_t |-> auth_t]
        r == upd_token(out, now, iss)
    IN  IF auth_t = "None"
        THEN [res |-> "BuildErr", auth_t |-> auth_t, client |-> NoClient, call |-> NoUpd]
        ELSE IF ~pat.valid
        THEN [res |-> "panic", auth_t |-> auth_t, client |-> NoClient, call |-> NoUpd]
        ELSE IF auth_t = "Token"
        THEN IF r.call.res = "Ok"
             THEN [res |-> "Ok", auth_t |-> auth_t, client |-> r.client, call |-> r.call]
             ELSE [res |-> "TokenUpdErr", auth_t |-> auth_t, client |-> NoClient,
                   call |-> r.call]
        ELSE [res |-> "Ok", auth_t |-> auth_t, client |-> out, call |-> NoUpd]

\* The issuer's answers that a call of upd_token at time now can meet: the
\* issuer is run only when the early return is not taken.
IssuerAnswers(c, now) ==
    IF c.auth_t = "Token" /\ ~TokenFresh(c, now)
    THEN IssuerResults
    ELSE { NoIssuer }

\* ------------------------------------------------------ the request builder
NoReq ==
    [method |-> "", url |-> << >>, folder |-> None, logging |-> "",
     scheme |-> "", cred |-> << >>]

\* AuthRequest with the x-folder-id header on the ApiKey arm too.
AuthRequest_FolderAlways(c, method, url) ==
    CASE c.auth_t = "Token" ->
           [method |-> method, url |-> url, folder |-> Some(Unwrap(c.folder)),
            logging |-> "true", scheme |-> "Bearer", cred |-> Unwrap(c.token)]
      [] c.auth_t = "ApiKey" ->
           [method |-> method, url |-> url, folder |-> c.folder,
            logging |-> "true", scheme |-> "Api-Key", cred |-> Unwrap(c.api_key)]

\* The request post/get hand back once the token is known to be usable.
AuthRequest(c, method, url) ==
    CASE c.auth_t = "Token" ->
           [method |-> method, url |-> url, folder |-> Some(Unwrap(c.folder)),
            logging |-> "true", scheme |-> "Bearer", cred |-> Unwrap(c.token)]
      [] c.auth_t = "ApiKey" ->
           [method |-> method, url |-> url, folder |-> None,
            logging |-> "true", scheme |-> "Api-Key", cred |-> Unwrap(c.api_key)]

\* RequestBuild with upd_token's result dropped (`let _ = self.upd_token();`).
RequestBuild_IgnoreErr(c, method, path, now, iss) ==
    LET url == BuildUrl(c.base_url, path)
        r == upd_token(c, now, iss)
    IN  CASE c.auth_t = "Token" ->
               [client |-> r.client, call |-> r.call, panic |-> FALSE,
                req |-> Some(AuthRequest(r.client, method, url))]
          [] c.auth_t = "ApiKey" ->
               [client |-> c, call |-> NoUpd, panic |-> FALSE,
                req |-> Some(AuthRequest(c, method, url))]
          [] OTHER ->
               [client |-> c, call |-> NoUpd, panic |-> TRUE, req |-> None]

\* The body shared by post and get.  In Token mode upd_token runs first and
\* its Err is expect()ed: a failed refresh panics and no RequestBuilder is
\* made.  AuthType::None panics.
RequestBuild(c, method, path, now, iss) ==
    LET url == BuildUrl(c.base_url, path)
        r == upd_token(c, now, iss)
    IN  CASE c.auth_t = "Token" ->
               IF r.call.res = "Ok"
               THEN [client |-> r.client, call |-> r.call, panic |-> FALSE,
                     req |-> Some(AuthRequest(r.client, method, url))]
               ELSE [client |-> r.client, call |-> r.call, panic |-> TRUE,
                     req |-> None]
          [] c.auth_t = "ApiKey" ->
               [client |-> c, call |-> NoUpd, panic |-> FALSE,
                req |-> Some(AuthRequest(c, method, url))]
          [] OTHER ->
               [client |-> c, call |-> NoUpd, panic |-> TRUE, req |-> None]

\* The message of the panic that ends post/get without a RequestBuilder.
PanicMessage(c) ==
    IF c.auth_t = "None" THEN "Auth type for yaOcr is not defined"
    ELSE "Could not renew token"

\* pub fn post(&mut self, path: &str) -> reqwest::RequestBuilder
post(c, path, now, iss) == RequestBuild(c, "POST", path, now, iss)

\* pub fn get(&mut self, path: &str) -> reqwest::RequestBuilder
get(c, path, now, iss) == RequestBuild(c, "GET", path, now, iss)

\* ------------------------------------------------ the caller's message
\* Most items of the first message's content.
MaxItems == 2

\* A UserContent item: a Document or an Image (data a DocumentSourceKind,
\* media whether media_type is Some), or anything else (Text).
ContentItems ==
    { [kind |-> k, data |-> d, media |-> m] :
        k \in { "Document", "Image" }, d \in { "Base64", "Url" }, m \in BOOLEAN }
    \cup { [kind |-> "Text", data |-> "", media |-> FALSE] }

\* chat_history.first(): a user message with its content, or another role.
Messages ==
    { [role |-> "User", content |-> c] :
        c \in SeqsUpTo(ContentItems, MaxItems) \ { << >> } }
    \cup { [role |-> "Assistant", content |-> << >>] }

RECURSIVE FilterKind(_, _)
\* content.into_iter().filter_map(..).collect(): the items of one kind.
FilterKind(content, kind) ==
    IF content = << >> THEN << >>
    ELSE (IF content[1].kind = kind THEN << content[1] >> ELSE << >>)
         \o FilterKind(Tail(content), kind)

\* The number of content-bearing items (documents and images) of a message.
ContentBearing(msg) ==
    Len(FilterKind(msg.content, "Document")) + Len(FilterKind(msg.content, "Image"))

NoOutcome == [kind |-> "none", stage |-> "", msg |-> "", full_text |-> ""]
Failure(kind, stage, msg) ==
    [kind |-> kind, stage |-> stage, msg |-> msg, full_text |-> ""]

\* The head of completion, up to the YaCompletionRequest: which item is
\* sent, or the error returned before any request is built.
ExtractContent(msg) ==
    LET docs_msg == FilterKind(msg.content, "Document")
        imgs_msg == FilterKind(msg.content, "Image")
        first == IF Len(docs_msg) > 0 THEN docs_msg[1] ELSE imgs_msg[1]
    IN  IF msg.role # "User"
        THEN Failure("RequestError", "validate", "Can only send documents")
        ELSE IF Len(docs_msg) = 0 /\ Len(imgs_msg) = 0
        THEN Failure("RequestError", "validate",
                     "Incorrect msg - required Image or Doc")
        ELSE IF first.data # "Base64"
        THEN Failure("RequestError", "validate", "Should be base64 encoded")
        ELSE IF ~first.media
        THEN Failure("panic", "validate", "media_type.unwrap()")
        ELSE NoOutcome

\* ------------------------------------------------------------- responses
\* The answer to the submit request.  sent: send() returned Ok; success:
\* status().is_success(); read: text() returned Ok; text: the body; id: what
\* serde_json::from_str::<AsyncRes> makes of the body (None: it fails).
NoSubmitResp ==
    [sent |-> FALSE, success |-> FALSE, read |-> FALSE, text |-> "", id |-> None]
SubmitResponses ==
    { NoSubmitResp }
    \cup { [sent |-> TRUE, success |-> ok, read |-> FALSE, text |-> "", id |-> None] :
             ok \in BOOLEAN }
    \cup { [sent |-> TRUE, success |-> ok, read |-> TRUE, text |-> b.text, id |-> b.id] :
             ok \in BOOLEAN,
             b \in { [text |-> "{id:job-1,description:,done:false}", id |-> Some("job-1")],
                     [text |-> "denied", id |-> None] } }

FullTexts == { "hello", "bye" }
ProviderMessages == { "quota exceeded" }

\* The body of a poll response by the fields the decoders look at.  result:
\* "ok" when the body holds a `result` that decodes as ResultOcr (full_text
\* its fullText), "bad" when it holds one that does not, "no" when it holds
\* none; message_f / message likewise for a string `message`.  A body that
\* is no JSON object at all decodes like the one with neither field.
PollBodies ==
    { [result |-> "ok", full_text |-> ft, message_f |-> m.f, message |-> m.s] :
        ft \in FullTexts,
        m \in { [f |-> "no", s |-> ""], [f |-> "bad", s |-> ""] }
              \cup { [f |-> "ok", s |-> x] : x \in ProviderMessages } }
    \cup { [result |-> r, full_text |-> "", message_f |-> m.f, message |-> m.s] :
        r \in { "no", "bad" },
        m \in { [f |-> "no", s |-> ""], [f |-> "bad", s |-> ""] }
              \cup { [f |-> "ok", s |-> x] : x \in ProviderMessages } }

NoBody == [result |-> "no", full_text |-> "", message_f |-> "no", message |-> ""]
NoResp == [sent |-> FALSE, success |-> FALSE, read |-> FALSE, body |-> NoBody]

\* The answers to a status request.  The body of an answer with a non-success
\* status is only logged: an error-shaped one and an empty one stand for all.
PollResponses ==
    { NoResp }
    \cup { [sent |-> TRUE, success |-> ok, read |-> FALSE, body |-> NoBody] :
             ok \in BOOLEAN }
    \cup { [sent |-> TRUE, success |-> TRUE, read |-> TRUE, body |-> b] :
             b \in PollBodies }
    \cup { [sent |-> TRUE, success |-> FALSE, read |-> TRUE, body |-> b] :
             b \in { x \in PollBodies : x.result = "no" /\ x.message_f # "bad" } }

\* Classify with the decoding error folded into the provider-error arm.
Classify_ErrDefault(body) ==
    IF body.result = "ok"
    THEN [kind |-> "Ok", stage |-> "classify", msg |-> "", full_text |-> body.full_text]
    ELSE Failure("ProviderError", "classify", body.message)

\* serde_json::from_str::<ApiResponse<CompletionResponse>>(&t)? and the match
\* on it.  #[serde(untagged)] tries the variants in order: Ok(T) first, then
\* Err(ApiErrorResponse); a body neither decodes is a serde_json::Error,
\* which `?` turns into CompletionError::JsonError.
Classify(body) ==
    IF body.result = "ok"
    THEN [kind |-> "Ok", stage |-> "classify", msg |-> "", full_text |-> body.full_text]
    ELSE IF body.message_f = "ok"
    THEN Failure("ProviderError", "classify", body.message)
    ELSE Failure("JsonError", "classify", "data did not match any variant")

\* ------------------------------------------------------------ the flow
SubmitPath == << "/", "recognizeTextAsync" >>
\* format!("/getRecognition?operationId={}", resp.id)
PollPath(id) == << "/", "getRecognition?operationId=", id >>

\* completion, from its head to the sending of the submit request: the
\* message is checked and post builds the request, which send() starts.
\* posts is the number of requests sent.
SubmitBuild(c, msg, now, iss) ==
    LET v == ExtractContent(msg)
        b == post(c, SubmitPath, now, iss)
    IN  IF v.kind # "none"
        THEN [client |-> c, call |-> NoUpd, req |-> NoReq, posts |-> 0,
              next |-> "done", outcome |-> v]
        ELSE IF b.panic
        THEN [client |-> b.client, call |-> b.call, req |-> NoReq, posts |-> 0,
              next |-> "done",
              outcome |-> Failure("panic", "submit", PanicMessage(b.client))]
        ELSE [client |-> b.client, call |-> b.call, req |-> Unwrap(b.req), posts |-> 1,
              next |-> "submitting", outcome |-> NoOutcome]

\* SubmitRecv without the test of the status: the body is decoded as
\* AsyncRes whatever the status.
SubmitRecv_AnyStatus(r) ==
    IF ~r.sent
    THEN [job |-> "", next |-> "done",
          outcome |-> Failure("panic", "submit", "Could not init request")]
    ELSE IF ~r.read
    THEN [job |-> "", next |-> "done",
          outcome |-> Failure("panic", "submit", "Could not extract text")]
    ELSE IF ~IsSome(r.id)
    THEN [job |-> "", next |-> "done",
          outcome |-> Failure("JsonError", "submit", "AsyncRes")]
    ELSE [job |-> Unwrap(r.id), next |-> "polling", outcome |-> NoOutcome]

\* completion, from the answer r to the submit request to the job id.
SubmitRecv(r) ==
    IF ~r.sent
    THEN [job |-> "", next |-> "done",
          outcome |-> Failure("panic", "submit", "Could not init request")]
    ELSE IF ~r.success
    THEN [job |-> "", next |-> "done",
          outcome |-> Failure("ProviderError", "submit",
                              IF r.read THEN r.text ELSE "Not known error")]
    ELSE IF ~r.read
    THEN [job |-> "", next |-> "done",
          outcome |-> Failure("panic", "submit", "Could not extract text")]
    ELSE IF ~IsSome(r.id)
    THEN [job |-> "", next |-> "done",
          outcome |-> Failure("JsonError", "submit", "AsyncRes")]
    ELSE [job |-> Unwrap(r.id), next |-> "polling", outcome |-> NoOutcome]

\* The head of one turn of `for i in 0..30`, b being what get(req) did:
\* the status request it built is started by send().  gets is the number
\* of requests sent.
PollBuild(b) ==
    IF b.panic
    THEN [client |-> b.client, call |-> b.call, req |-> NoReq, gets |-> 0,
          next |-> "done",
          outcome |-> Failure("panic", "poll", PanicMessage(b.client))]
    ELSE [client |-> b.client, call |-> b.call, req |-> Unwrap(b.req), gets |-> 1,
          next |-> "sending", outcome |-> NoOutcome]

\* PollRecv of a loop without a bound (`loop` for `for i in 0..30`).
PollRecv_NoLimit(n, r) ==
    IF ~r.sent
    THEN [n |-> n + 1, next |-> "done",
          outcome |-> Failure("panic", "poll", "Could not get response")]
    ELSE IF r.success
    THEN [n |-> n + 1, next |-> "done",
          outcome |-> IF r.read THEN Classify(r.body)
                      ELSE Failure("panic", "classify", "text().unwrap()")]
    ELSE [n |-> IF n + 1 < MaxAttempts THEN n + 1 ELSE n, next |-> "polling",
          outcome |-> NoOutcome]

\* PollRecv without the `break`: a success response is kept and the loop
\* goes on while turns are left.
PollRecv_NoBreak(n, r) ==
    IF ~r.sent
    THEN [n |-> n + 1, next |-> "done",
          outcome |-> Failure("panic", "poll", "Could not get response")]
    ELSE IF n + 1 < MaxAttempts
    THEN [n |-> n + 1, next |-> "polling", outcome |-> NoOutcome]
    ELSE IF r.success
    THEN [n |-> n + 1, next |-> "done",
          outcome |-> IF r.read THEN Classify(r.body)
                      ELSE Failure("panic", "classify", "text().unwrap()")]
    ELSE [n |-> n + 1, next |-> "done",
          outcome |-> Failure("ProviderError", "exhausted",
                              "Could not get Async results")]

\* The rest of the turn, on the answer r to the status request, together
\* with what follows the loop when this turn ends it.  n is the number of
\* turns taken before this one.
PollRecv(n, r) ==
    IF ~r.sent
    THEN [n |-> n + 1, next |-> "done",
          outcome |-> Failure("panic", "poll", "Could not get response")]
    ELSE IF r.success
    THEN [n |-> n + 1, next |-> "done",
          outcome |-> IF r.read THEN Classify(r.body)
                      ELSE Failure("panic", "classify", "text().unwrap()")]
    ELSE IF n + 1 < MaxAttempts
    THEN [n |-> n + 1, next |-> "polling", outcome |-> NoOutcome]
    ELSE [n |-> n + 1, next |-> "done",
          outcome |-> Failure("ProviderError", "exhausted",
                              "Could not get Async results")]

\* ---------------------------------------------------------------- state
VARIABLES
    clock,      \* Local::now(), in hours
    built,      \* from_full's result and the auth type it deduced
    client,     \* the store: CompletionModel.client
    pc,         \* the flow: "idle", "submitting" and "sending" (a request is
                \* awaited), "polling" (between two turns), "done"
    job,        \* resp.id of the accepted submission
    i,          \* turns of the polling loop taken
    outcome,    \* what completion returned, or the panic that ended it
    nPost,      \* submit requests sent in this flow
    nGet,       \* status requests sent in this flow
    \* What the last step did and met (reset by a step that has none):
    args,       \* the credential arguments of its from_full call
    items,      \* the content-bearing items of the message it took
    lastReq,    \* the request it sent
    upd,        \* its upd_token call
    resp,       \* the answer to the status request it received
    sresp,      \* the answer to the submit request it received
    url_base, url_path, url_out, url_done,  \* the URL-building specification
    \* The concurrent-refresh specification:
    refresher,  \* each flow's position inside upd_token and its locals
    issued,     \* issuer invocations so far
    tok_from,   \* the invocation whose output is in token (0: from_full)
    upd_from    \* the invocation whose time is in token_upd (0: from_full)

vars == << clock, built, client, pc, job, i, outcome, nPost, nGet,
           args, items, lastReq, upd, resp, sresp,
           url_base, url_path, url_out, url_done,
           refresher, issued, tok_from, upd_from >>
flowVars == << pc, job, i, outcome, nPost, nGet >>
urlVars == << url_base, url_path, url_out, url_done >>
concVars == << refresher, issued, tok_from, upd_from >>

NoArgs == [called |-> FALSE, api_key |-> None, token |-> None, folder |-> None]
NoItems == 0 - 1

InitStore ==
    /\ clock = 0
    /\ built = [res |-> "no", auth_t |-> "None"]
    /\ client = NoClient
    /\ pc = "idle" /\ job = "" /\ i = 0 /\ outcome = NoOutcome
    /\ nPost = 0 /\ nGet = 0
    /\ args = NoArgs /\ items = NoItems
    /\ lastReq = NoReq /\ upd = NoUpd /\ resp = NoResp /\ sresp = NoSubmitResp

InitUrl ==
    /\ url_base = << >> /\ url_path = << >> /\ url_out = << >> /\ url_done = FALSE

\* No flow is inside upd_token and the issuer has not been run.
InitConc ==
    /\ refresher = << >> /\ issued = 0 /\ tok_from = 0 /\ upd_from = 0

Init == InitStore /\ InitUrl /\ InitConc

\* Time passes.  Nothing reads the clock before from_full does, and
\* completion returns as soon as it is done.
Tick ==
    /\ built.res = "Ok" /\ pc # "done"
    /\ clock < MaxTime
    /\ clock' = clock + 1
    /\ args' = NoArgs /\ items' = NoItems
    /\ lastReq' = NoReq /\ upd' = NoUpd /\ resp' = NoResp /\ sresp' = NoSubmitResp
    /\ UNCHANGED << built, client, flowVars, urlVars, concVars >>

\* Client::from_full(..)
Construct ==
    /\ built.res = "no"
    /\ \E a_base_url \in BaseUrlArgs, a_api_key \in ApiKeyArgs, a_token \in TokenArgs,
          a_folder \in FolderArgs, a_tkn_pattern \in PatternArgs, iss \in IssuerResults :
          LET r == from_full(a_base_url, a_api_key, a_token, a_folder, a_tkn_pattern,
                             clock, iss)
          IN  /\ args' = [called |-> TRUE, api_key |-> a_api_key, token |-> a_token,
                          folder |-> a_folder]
              /\ built' = [res |-> r.res, auth_t |-> r.auth_t]
              /\ client' = r.client
              /\ upd' = r.call
    /\ items' = NoItems /\ lastReq' = NoReq /\ resp' = NoResp /\ sresp' = NoSubmitResp
    /\ UNCHANGED << clock, flowVars, urlVars, concVars >>

\* Client::base_url(self, base_url), before the model is used.
SetBaseUrl ==
    /\ built.res = "Ok" /\ pc = "idle"
    /\ \E u \in { YA_BASE_URL, OtherBaseUrl } :
          /\ u # client.base_url
          /\ client' = [client EXCEPT !.base_url = u]
    /\ args' = NoArgs /\ items' = NoItems
    /\ lastReq' = NoReq /\ upd' = NoUpd /\ resp' = NoResp /\ sresp' = NoSubmitResp
    /\ UNCHANGED << clock, built, flowVars, urlVars, concVars >>

\* completion is called and runs up to its first await: send() of the
\* submit request.
Submit ==
    /\ built.res = "Ok" /\ pc = "idle"
    /\ \E msg \in Messages :
       \E iss \in IF ExtractContent(msg).kind = "none"
                   THEN IssuerAnswers(client, clock) ELSE { NoIssuer } :
          LET s == SubmitBuild(client, msg, clock, iss)
          IN  /\ client' = s.client
              /\ upd' = s.call
              /\ lastReq' = s.req
              /\ nPost' = s.posts
              /\ pc' = s.next
              /\ outcome' = s.outcome
              /\ items' = ContentBearing(msg)
    /\ job' = "" /\ i' = 0 /\ nGet' = 0 /\ args' = NoArgs
    /\ resp' = NoResp /\ sresp' = NoSubmitResp
    /\ UNCHANGED << clock, built, urlVars, concVars >>

\* The submit request is answered.
SubmitAnswer ==
    /\ pc = "submitting"
    /\ \E r \in SubmitResponses :
          LET s == SubmitRecv(r)
          IN  /\ job' = s.job
              /\ pc' = s.next
              /\ outcome' = s.outcome
              /\ sresp' = r
    /\ args' = NoArgs /\ items' = NoItems
    /\ lastReq' = NoReq /\ upd' = NoUpd /\ resp' = NoResp
    /\ UNCHANGED << clock, built, client, i, nPost, nGet, urlVars, concVars >>

\* A turn of the polling loop starts: up to send() of the status request.
Poll ==
    /\ pc = "polling"
    /\ \E iss \in IssuerAnswers(client, clock) :
       \E b \in { get(client, PollPath(job), clock, iss) } :
       \E s \in { PollBuild(b) } :
          /\ client' = s.client
          /\ upd' = s.call
          /\ lastReq' = s.req
          /\ nGet' = nGet + s.gets
          /\ pc' = s.next
          /\ outcome' = s.outcome
    /\ args' = NoArgs /\ items' = NoItems /\ resp' = NoResp /\ sresp' = NoSubmitResp
    /\ UNCHANGED << clock, built, job, i, nPost, urlVars, concVars >>

\* The status request is answered.
PollAnswer ==
    /\ pc = "sending"
    /\ \E r \in PollResponses :
          LET s == PollRecv(i, r)
          IN  /\ i' = s.n
              /\ pc' = s.next
              /\ outcome' = s.outcome
              /\ resp' = r
    /\ args' = NoArgs /\ items' = NoItems /\ lastReq' = NoReq /\ upd' = NoUpd
    /\ sresp' = NoSubmitResp
    /\ UNCHANGED << clock, built, client, job, nPost, nGet, urlVars, concVars >>

\* The caller has the result; completion may be called again.
Return ==
    /\ pc = "done"
    /\ pc' = "idle" /\ job' = "" /\ i' = 0 /\ outcome' = NoOutcome
    /\ nPost' = 0 /\ nGet' = 0
    /\ args' = NoArgs /\ items' = NoItems
    /\ lastReq' = NoReq /\ upd' = NoUpd /\ resp' = NoResp /\ sresp' = NoSubmitResp
    /\ UNCHANGED << clock, built, client, urlVars, concVars >>

Next ==
    Tick \/ Construct \/ SetBaseUrl \/ Submit \/ SubmitAnswer \/ Poll \/ PollAnswer \/ Return

Spec == Init /\ [][Next]_vars

\* The flow when every request that was sent is answered (or fails) and
\* the task is scheduled again after thread::sleep: the issuer is run
\* inside the Submit and Poll steps, which end when it returns.
SpecLive ==
    Init /\ [][Next]_vars
    /\ WF_vars(SubmitAnswer) /\ WF_vars(Poll) /\ WF_vars(PollAnswer)

\* --------------------------------------------- the URL-building specification
\* The URL that post and get give for every base URL and path over
\* UrlAlphabet: the store is built with the base URL and an API key, and
\* the request builder is called with the path.
UrlAlphabet == { "/", "a" }
UrlStrings == SeqsUpTo(UrlAlphabet, MaxUrlLen)

InitUrlInputs ==
    /\ InitStore /\ InitConc
    /\ url_base \in UrlStrings /\ url_path \in UrlStrings
    /\ url_out = << >> /\ url_done = FALSE

UrlClient(base) ==
    from_full(Some(base), Some(<< "k" >>), None, None, None, 0, NoIssuer).client

UrlPost ==
    /\ ~url_done
    /\ url_out' = Unwrap(post(UrlClient(url_base), url_path, 0, NoIssuer).req).url
    /\ url_done' = TRUE
    /\ UNCHANGED << clock, built, client, flowVars, args, items, lastReq, upd, resp,
                    url_base, url_path, sresp, concVars >>

UrlGet ==
    /\ ~url_done
    /\ url_out' = Unwrap(get(UrlClient(url_base), url_path, 0, NoIssuer).req).url
    /\ url_done' = TRUE
    /\ UNCHANGED << clock, built, client, flowVars, args, items, lastReq, upd, resp,
                    url_base, url_path, sresp, concVars >>

NextUrl == UrlPost \/ UrlGet

SpecUrl == InitUrlInputs /\ [][NextUrl]_vars

\* ------------------------------------- the concurrent-refresh specification
\* Several calls of completion run against one CompletionModel.  completion
\* takes &self and reaches the store through a *mut Client cast, so nothing
\* orders the upd_token calls of two tasks of a multi-threaded runtime: they
\* interleave statement by statement.  A call is cut where it reads or
\* writes the store: the early-return test, the run of the issuer, the
\* write of token and the write of token_upd.
\* Flows that share the store.
NFlows == 2
\* Most issuer invocations followed.
MaxIssued == 3

Flows == 1 .. NFlows

\* A flow outside upd_token.  res is what its last call returned.
NoRefresher == [pc |-> "out", now |-> 0, tkn |-> << >>, id |-> 0, res |-> ""]

\* The shared store: Token mode, built at hour 0 with the caller's token.
SharedClient ==
    from_full(None, None, Some(<< "t" >>), Some(<< "f" >>), None, 0, NoIssuer)

InitFlows ==
    /\ clock = 0
    /\ built = [res |-> SharedClient.res, auth_t |-> SharedClient.auth_t]
    /\ client = SharedClient.client
    /\ pc = "idle" /\ job = "" /\ i = 0 /\ outcome = NoOutcome
    /\ nPost = 0 /\ nGet = 0
    /\ args = NoArgs /\ items = NoItems
    /\ lastReq = NoReq /\ upd = NoUpd /\ resp = NoResp /\ sresp = NoSubmitResp
    /\ InitUrl
    /\ refresher = [f \in Flows |-> NoRefresher]
    /\ issued = 0 /\ tok_from = 0 /\ upd_from = 0

storeVars == << built, flowVars, args, items, lastReq, upd, resp, sresp, urlVars >>

\* Time passes for every flow.
FlowTick ==
    /\ clock < MaxTime
    /\ clock' = clock + 1
    /\ UNCHANGED << client, storeVars, concVars >>

\* upd_token, lines 180-190: now is read and the early return is taken or not.
RefreshEnter(f) ==
    /\ refresher[f].pc = "out"
    /\ refresher' =
          [refresher EXCEPT ![f] =
              IF TokenFresh(client, clock)
              THEN [NoRefresher EXCEPT !.res = "Ok"]
              ELSE [NoRefresher EXCEPT !.pc = "spawn", !.now = clock]]
    /\ UNCHANGED << clock, client, storeVars, issued, tok_from, upd_from >>

\* upd_token, lines 192-212: the issuer is run, its output read, popped and
\* matched against rx.
RefreshSpawn(f) ==
    /\ refresher[f].pc = "spawn"
    /\ issued < MaxIssued
    /\ issued' = issued + 1
    /\ \E iss \in IssuerResults :
          refresher' =
            [refresher EXCEPT ![f] =
                IF iss.kind = "stdout" /\ IsMatch(client.rx.lit, Pop(iss.out))
                THEN [@ EXCEPT !.pc = "store_token", !.tkn = Pop(iss.out),
                               !.id = issued + 1]
                ELSE [NoRefresher EXCEPT !.res = "TokenUpdErr"]]
    /\ UNCHANGED << clock, client, storeVars, tok_from, upd_from >>

\* upd_token, line 215: self.token = Some(tkn)
RefreshStoreToken(f) ==
    /\ refresher[f].pc = "store_token"
    /\ client' = [client EXCEPT !.token = Some(refresher[f].tkn)]
    /\ tok_from' = refresher[f].id
    /\ refresher' = [refresher EXCEPT ![f].pc = "store_time"]
    /\ UNCHANGED << clock, storeVars, issued, upd_from >>

\* upd_token, lines 216-218: self.token_upd = Some(now); return Ok(())
RefreshStoreTime(f) ==
    /\ refresher[f].pc = "store_time"
    /\ client' = [client EXCEPT !.token_upd = Some(refresher[f].now)]
    /\ upd_from' = refresher[f].id
    /\ refresher' = [refresher EXCEPT ![f] = [NoRefresher EXCEPT !.res = "Ok"]]
    /\ UNCHANGED << clock, storeVars, issued, tok_from >>

NextConc ==
    \/ FlowTick
    \/ \E f \in Flows :
          \/ RefreshEnter(f)
          \/ RefreshSpawn(f)
          \/ RefreshStoreToken(f)
          \/ RefreshStoreTime(f)

SpecConc == InitFlows /\ [][NextConc]_vars

\* ------------------------------------------------------------ properties
\* C1: after from_full, the deduced auth type is ApiKey when an API key was
\* given (with or without a folder id or a token), else Token when a folder
\* id was given, else none; a client that is produced has that auth type;
\* and from_full returns BuildErr, producing no client, exactly when neither
\* an API key nor a folder id was given.
C1_ModeResolution ==
    args.called =>
        /\ IsSome(args.api_key) => built.auth_t = "ApiKey"
        /\ ~IsSome(args.api_key) /\ IsSome(args.folder) => built.auth_t = "Token"
        /\ built.res = "BuildErr" <=> ~IsSome(args.api_key) /\ ~IsSome(args.folder)
        /\ built.res = "Ok" => client.auth_t = built.auth_t /\ client.auth_t # "None"
        /\ built.res # "Ok" => client = NoClient

\* from_full was given an API key and a folder id and produced an ApiKey client.
C1_Witness ==
    /\ args.called /\ IsSome(args.api_key) /\ IsSome(args.folder)
    /\ built.res = "Ok" /\ client.auth_t = "ApiKey"

\* C2: the polling loop sends at most 30 status requests, sends none after
\* a success response, and a flow that used up the 30 turns ends with an
\* error that is not the one used for provider-reported failures.
C2_PollExhaustedDistinct ==
    /\ nGet <= MaxAttempts
    /\ resp.sent /\ resp.success => pc = "done"
    /\ outcome.stage = "exhausted" => nGet = MaxAttempts /\ outcome.kind # "ProviderError"

\* C3: a call of upd_token on a store that holds a token does not run the
\* issuer and leaves the token and the refresh time as they were when less
\* than three hours have passed since the refresh time; it runs the issuer
\* when three hours or more have passed, or when the store holds no token.
C3_RefreshWindow ==
    upd.called =>
        /\ ( /\ IsSome(upd.pre_token) /\ IsSome(upd.pre_upd)
             /\ upd.at - Unwrap(upd.pre_upd) < YA_OCR_TOKEN_UPD )
           => /\ ~upd.invoked /\ upd.res = "Ok"
              /\ client.token = upd.pre_token /\ client.token_upd = upd.pre_upd
        /\ ( /\ IsSome(upd.pre_token) /\ IsSome(upd.pre_upd)
             /\ upd.at - Unwrap(upd.pre_upd) >= YA_OCR_TOKEN_UPD )
           => upd.invoked
        /\ ~IsSome(upd.pre_token) => upd.invoked

\* upd_token met a token refreshed exactly three hours before and ran the issuer.
C3_Witness ==
    /\ upd.called /\ IsSome(upd.pre_token)
    /\ upd.at - Unwrap(upd.pre_upd) = YA_OCR_TOKEN_UPD
    /\ upd.invoked

\* C4: a call of upd_token that returns an error (the issuer could not be
\* run, its output was no text, or the output did not match the store's
\* pattern) leaves the token and the refresh time of the store as they
\* were; and a call that stores a token stores one that matches the pattern.
C4_RejectedNotStored ==
    upd.called /\ built.res = "Ok" =>
        /\ upd.res = "TokenUpdErr"
           => client.token = upd.pre_token /\ client.token_upd = upd.pre_upd
        /\ upd.invoked /\ upd.res = "Ok"
           => /\ client.token = Some(upd.tkn)
              /\ IsMatch(client.rx.lit, upd.tkn)

\* upd_token rejected the issuer's output on a store that held a token.
C4_Witness ==
    /\ upd.called /\ built.res = "Ok" /\ upd.why = "invalid"
    /\ IsSome(upd.pre_token) /\ client.token = upd.pre_token
    /\ ~IsMatch(client.rx.lit, upd.tkn)

\* C5: in Token mode a request is sent only by a step in which upd_token
\* ran and returned Ok, it carries the token the store holds, and that token
\* was refreshed less than three hours ago; a step in which upd_token
\* returned an error sends no request and ends the flow.
C5_RefreshBeforeRequest ==
    /\ lastReq # NoReq /\ client.auth_t = "Token"
       => /\ upd.called /\ upd.res = "Ok"
          /\ lastReq.scheme = "Bearer"
          /\ IsSome(client.token) /\ lastReq.cred = Unwrap(client.token)
          /\ IsSome(client.token_upd)
          /\ clock - Unwrap(client.token_upd) < YA_OCR_TOKEN_UPD
    /\ upd.called /\ upd.res = "TokenUpdErr" /\ built.res = "Ok"
       => lastReq = NoReq /\ pc = "done"

\* A refresh failed while a status request was being built: none was sent.
C5_Witness ==
    /\ upd.called /\ upd.res = "TokenUpdErr" /\ built.res = "Ok"
    /\ outcome.stage = "poll" /\ lastReq = NoReq /\ nGet > 0

\* C6: a refresh failure while the submit request or a status request is
\* built ends the flow with a returned error, not with a panic.
C6_RefreshErrorReturned ==
    upd.called /\ upd.res = "TokenUpdErr" /\ built.res = "Ok"
        => pc = "done" /\ outcome.kind # "panic"

\* C7: a call of completion whose message holds no content-bearing item, or
\* more than one, returns a RequestError and sends no request.
C7_ValidationNoNetwork ==
    items # NoItems /\ items # 1
        => /\ pc = "done" /\ outcome.kind = "RequestError"
           /\ nPost = 0 /\ lastReq = NoReq

\* C8: a poll response that ends the loop and whose body carries a string
\* `message` ends the flow with ProviderError carrying that message.
C8_ErrorShapeIsProviderError ==
    resp.sent /\ resp.success /\ resp.read /\ resp.body.message_f = "ok"
        => /\ pc = "done" /\ outcome.kind = "ProviderError"
           /\ outcome.msg = resp.body.message

\* C9: a poll response that ends the loop and whose body decodes neither as
\* the success shape nor as the provider-error shape ends the flow with the
\* decoding error (CompletionError::JsonError), which is neither a result
\* nor a ProviderError.
C9_UnexpectedShape ==
    ( /\ resp.sent /\ resp.success /\ resp.read
      /\ resp.body.result # "ok" /\ resp.body.message_f # "ok" )
        => /\ pc = "done" /\ outcome.kind = "JsonError"
           /\ outcome.kind \notin { "Ok", "ProviderError" }

\* A body with a `result` that does not decode and a `message` that is no
\* string ended the flow with the decoding error.
C9_Witness ==
    /\ resp.sent /\ resp.success /\ resp.read
    /\ resp.body.result = "bad" /\ resp.body.message_f = "bad"
    /\ pc = "done" /\ outcome.kind = "JsonError"

RECURSIVE CollapseRuns(_)
\* s with every run of separators replaced by one separator.
CollapseRuns(s) ==
    IF Len(s) < 2 THEN s
    ELSE IF s[1] = "/" /\ s[2] = "/"
         THEN CollapseRuns(Tail(s))
         ELSE << s[1] >> \o CollapseRuns(Tail(s))

\* C10: the URL post and get build is "<base>/<path>" with every run of
\* separators collapsed to one separator and nothing else changed.
C10_SeparatorsCollapsed ==
    url_done => url_out = CollapseRuns(url_base \o << "/" >> \o url_path)

\* C11: when a status request is answered with a success status and a body
\* of the success shape, the flow ends with a result whose full text is the
\* one of that body, having sent one submit request and as many status
\* requests as turns of the loop were taken (between 1 and 30); and every
\* turn taken before the last one met a response with a non-success status.
\* So k - 1 non-success responses followed by such a response make exactly
\* k status requests.
C11_ExactAttempts ==
    /\ []( ( /\ resp.sent /\ resp.success /\ resp.read
              /\ resp.body.result = "ok" )
            => /\ pc = "done" /\ outcome.kind = "Ok"
               /\ outcome.full_text = resp.body.full_text
               /\ nPost = 1 /\ nGet = i /\ i \in 1 .. MaxAttempts )
    /\ [][ pc = "sending" /\ pc' = "polling"
            => /\ i' = i + 1 /\ nGet' = nGet /\ nGet = i + 1
               /\ resp'.sent /\ ~resp'.success ]_vars

\* Two non-success responses, then a success response with full text
\* "hello": three status requests and the result "hello".
C11_Witness ==
    /\ resp.sent /\ resp.success /\ resp.read /\ resp.body.result = "ok"
    /\ resp.body.full_text = "hello"
    /\ pc = "done" /\ outcome.kind = "Ok" /\ outcome.full_text = "hello"
    /\ i = 3 /\ nGet = 3 /\ nPost = 1

\* C12: every request post or get builds carries x-data-logging-enabled:
\* true and one Authorization header, that of the store's auth type: in
\* Token mode x-folder-id with the store's folder and Bearer with the
\* store's token; in ApiKey mode Api-Key with the store's key, no
\* x-folder-id and no Bearer.
C12_RequestHeaders ==
    lastReq # NoReq =>
        /\ lastReq.logging = "true"
        /\ lastReq.method \in { "POST", "GET" }
        /\ client.auth_t = "Token"
           => /\ lastReq.scheme = "Bearer" /\ lastReq.cred = Unwrap(client.token)
              /\ lastReq.folder = Some(Unwrap(client.folder))
        /\ client.auth_t = "ApiKey"
           => /\ lastReq.scheme = "Api-Key" /\ lastReq.cred = Unwrap(client.api_key)
              /\ lastReq.folder = None
        /\ client.auth_t \in { "Token", "ApiKey" }

\* A status request of a store in ApiKey mode that also holds a folder id.
C12_Witness ==
    /\ lastReq # NoReq /\ lastReq.method = "GET"
    /\ client.auth_t = "ApiKey" /\ IsSome(client.folder)
    /\ lastReq.scheme = "Api-Key" /\ lastReq.folder = None

\* C13: a store that from_full produced has the auth type ApiKey or Token,
\* the one from_full deduced, in every state that base_url, upd_token, post
\* and get lead to; and no flow ends in the panic of the AuthType::None arm.
C13_AuthTypeSet ==
    /\ built.res = "Ok"
       => client.auth_t \in { "ApiKey", "Token" } /\ client.auth_t = built.auth_t
    /\ outcome.msg # "Auth type for yaOcr is not defined"

\* A Token store after a refresh inside get, its status request on the way.
C13_Witness ==
    /\ built.res = "Ok" /\ built.auth_t = "Token" /\ client.auth_t = "Token"
    /\ pc = "sending" /\ lastReq.method = "GET"
    /\ upd.invoked /\ upd.res = "Ok"

\* The flows that are inside upd_token past its early return.
Refreshing == { f \in Flows : refresher[f].pc # "out" }

\* C14: with several flows on one store in Token mode, at most one flow at
\* a time is between upd_token's early-return test and its return, so the
\* issuer is never run by one flow while another holds its output; and
\* whenever no flow is there, the token and the refresh time of the store
\* were written by the same call.
C14_RefreshCriticalSection ==
    /\ Cardinality(Refreshing) <= 1
    /\ Refreshing = { } => tok_from = upd_from

\* C15: a flow whose submit request or status request could not be sent
\* (send() gave an Err) ends with a returned error that is neither a
\* RequestError nor a ProviderError, not with a panic.
C15_TransportErrorReturned ==
    ( \/ outcome.stage = "submit" /\ nPost = 1 /\ ~sresp.sent
      \/ outcome.stage = "poll" /\ ~upd.called /\ ~resp.sent )
        => /\ pc = "done"
           /\ outcome.kind \notin { "panic", "RequestError", "ProviderError" }

\* C16: a status response whose body has the provider-error shape (a string
\* `message` and no `result`), whatever its status, ends the loop: the flow
\* ends with ProviderError carrying that message and no further status
\* request is sent.
C16_ProviderErrorTerminal ==
    ( /\ resp.sent /\ resp.read
      /\ resp.body.message_f = "ok" /\ resp.body.result = "no" )
        => /\ pc = "done" /\ outcome.kind = "ProviderError"
           /\ outcome.msg = resp.body.message

\* C17: a flow sends at most one submit request; when the answer to it has
\* a non-success status the flow ends with ProviderError carrying the body
\* text ("Not known error" when the body cannot be read), no job id is
\* taken from the body and no status request is sent, then or later in
\* the flow.
C17_SubmitRejected ==
    /\ [](nPost <= 1)
    /\ []( sresp.sent /\ ~sresp.success
            => /\ pc = "done" /\ outcome.kind = "ProviderError"
               /\ outcome.stage = "submit"
               /\ outcome.msg = (IF sresp.read THEN sresp.text ELSE "Not known error")
               /\ job = "" /\ nGet = 0 /\ nPost = 1 )
    /\ [][ pc = "done" => pc' = "idle" /\ nGet' = 0 /\ nPost' = 0 ]_vars

\* The submit request was answered with a non-success status and a body
\* that would decode as a job acceptance: the body text is the error.
C17_Witness ==
    /\ sresp.sent /\ ~sresp.success /\ sresp.read /\ IsSome(sresp.id)
    /\ pc = "done" /\ outcome.kind = "ProviderError" /\ outcome.msg = sresp.text
    /\ job = "" /\ nGet = 0

\* C18: a flow sends at most one submit request and at most 30 status
\* requests, and a flow that is under way (a request awaited, or between two
\* turns of the loop) eventually ends: completion returns a result or an
\* error, or the task ends in a panic.
C18_BoundedTermination ==
    /\ [](nPost <= 1 /\ nGet <= MaxAttempts)
    /\ pc \in { "submitting", "polling", "sending" } ~> pc = "done"

\* The flow ended after 30 status requests, none answered with success.
C18_Witness ==
    /\ pc = "done" /\ outcome.stage = "exhausted"
    /\ nPost = 1 /\ nGet = MaxAttempts /\ i = MaxAttempts

\* C19: when from_full deduces Token mode and was given no token, it calls
\* upd_token, which runs the issuer, before it returns: it returns the
\* store, holding the issuer's token and the hour of the call, only when
\* that refresh succeeded, and returns the refresh error, with no store,
\* when it failed.  A request is built only from a store from_full
\* returned, and a Token store holds a token and a refresh time.
C19_RefreshAtConstruction ==
    /\ ( args.called /\ ~IsSome(args.api_key) /\ IsSome(args.folder)
         /\ ~IsSome(args.token) )
       => /\ built.res \in { "Ok", "TokenUpdErr", "panic" }
          /\ built.res # "panic" => upd.called /\ upd.invoked /\ upd.at = clock
          /\ built.res = "Ok" <=> upd.called /\ upd.res = "Ok"
          /\ built.res = "TokenUpdErr" <=> upd.called /\ upd.res = "TokenUpdErr"
          /\ built.res = "Ok"
             => client.token = Some(upd.tkn) /\ client.token_upd = Some(clock)
          /\ built.res # "Ok" => client = NoClient
    /\ lastReq # NoReq => built.res = "Ok"
    /\ built.res = "Ok" /\ client.auth_t = "Token"
       => IsSome(client.token) /\ IsSome(client.token_upd)

\* from_full in Token mode without a token: the issuer's output was
\* rejected, from_full returned the error and there is no store.
C19_Witness ==
    /\ args.called /\ ~IsSome(args.api_key) /\ IsSome(args.folder)
    /\ ~IsSome(args.token)
    /\ upd.invoked /\ upd.why = "invalid"
    /\ built.res = "TokenUpdErr" /\ client = NoClient

\* s ends with the line terminator.
EndsWithNewline(s) == s # << >> /\ s[Len(s)] = "\n"

\* C20: when the issuer was run and its output read, the string upd_token
\* matches against the pattern, and stores when it matches, is the output
\* without its trailing line terminator: the output less its last
\* character when that is the terminator, the whole output otherwise.
C20_OnlyTerminatorRemoved ==
    upd.invoked /\ upd.why \notin { "bash", "stdout" } =>
        /\ upd.tkn = (IF EndsWithNewline(upd.raw) THEN Pop(upd.raw) ELSE upd.raw)
        /\ upd.res = "Ok" /\ built.res = "Ok" => client.token = Some(upd.tkn)

\* What a step does to the store of a client from_full returned, by the
\* upd_token call the step made (if any).
\* The step's upd_token call ran the issuer and returned Ok.
Refreshed == upd'.called /\ upd'.invoked /\ upd'.res = "Ok"

\* The store after the step is the store before it with the token and the
\* refresh time of that call, every other field as it was.
TokenAndTimeWritten ==
    client' = [client EXCEPT !.token = Some(upd'.tkn), !.token_upd = Some(upd'.at)]

\* The step is a call of the base_url builder: only base_url differs.
BaseUrlSet ==
    /\ client'.base_url # client.base_url
    /\ client' = [client EXCEPT !.base_url = client'.base_url]
    /\ ~upd'.called /\ lastReq' = NoReq /\ pc = "idle" /\ pc' = "idle"

\* C21: once from_full has returned the store, a step changes the store
\* only through an upd_token call that ran the issuer and returned Ok, and
\* then in token and token_upd alone, both written by that call; an
\* upd_token call that took the early return or returned an error leaves
\* the store as it was; and in ApiKey mode no step calls upd_token and no
\* request build changes the store.
C21_OnlyRefresherWrites ==
    [][ built.res = "Ok" =>
          /\ client' # client => Refreshed
          /\ Refreshed => TokenAndTimeWritten
          /\ upd'.called /\ ~Refreshed => client' = client
          /\ client.auth_t = "ApiKey"
             => ~upd'.called /\ (lastReq' # NoReq => client' = client) ]_vars

\* C21, amended: as C21, except that the store also changes through the
\* base_url builder, which replaces base_url and nothing else and makes no
\* upd_token call and no request.
C21_RefresherAndBuilderWrite ==
    [][ built.res = "Ok" =>
          /\ client' # client => Refreshed \/ BaseUrlSet
          /\ Refreshed => TokenAndTimeWritten
          /\ upd'.called /\ ~Refreshed => client' = client
          /\ client.auth_t = "ApiKey"
             => ~upd'.called /\ (lastReq' # NoReq => client' = client) ]_vars

\* A refresh inside get replaced the caller's token and stamped the hour.
C21_Witness ==
    /\ built.res = "Ok" /\ pc = "sending"
    /\ upd.called /\ upd.invoked /\ upd.res = "Ok"
    /\ IsSome(upd.pre_token) /\ upd.pre_token # client.token
    /\ client.token = Some(upd.tkn) /\ client.token_upd = Some(clock)
    /\ upd.pre_upd # client.token_upd

\* C22: a store from_full returned holds, in ApiKey mode, an API key and,
\* in Token mode, a folder id, a token and a refresh time; in either mode
\* the token and the refresh time are both held or both missing.  So the
\* unwrap() calls of post and get meet a Some.
C22_CredentialsPresent ==
    built.res = "Ok" =>
        /\ client.auth_t = "ApiKey" => IsSome(client.api_key)
        /\ client.auth_t = "Token"
           => /\ IsSome(client.folder)
              /\ IsSome(client.token) /\ IsSome(client.token_upd)
        /\ IsSome(client.token) <=> IsSome(client.token_upd)
        /\ lastReq # NoReq /\ client.auth_t = "Token"
           => /\ lastReq.folder = client.folder
              /\ Some(lastReq.cred) = client.token
        /\ lastReq # NoReq /\ client.auth_t = "ApiKey"
           => Some(lastReq.cred) = client.api_key

\* from_full returned a Token store for a caller that gave no token: the
\* store holds the folder id, the issuer's token and the refresh time.
C22_Witness ==
    /\ args.called /\ ~IsSome(args.token) /\ ~IsSome(args.api_key)
    /\ built.res = "Ok" /\ client.auth_t = "Token"
    /\ IsSome(client.folder) /\ IsSome(client.token) /\ IsSome(client.token_upd)

\* C23: the token a Token store holds matches the store's pattern, whether
\* the issuer or the caller of from_full gave it, and so does the token of
\* every Bearer header sent.
C23_StoredTokenMatches ==
    /\ built.res = "Ok" /\ client.auth_t = "Token"
       => IsSome(client.token) /\ IsMatch(client.rx.lit, Unwrap(client.token))
    /\ lastReq # NoReq /\ lastReq.scheme = "Bearer"
       => IsMatch(client.rx.lit, lastReq.cred)

=============================================================================
